---- MODULE Spec2Model ----
(***************************************************************************)
(* State-machine model of utils/anomaly_detector.py (class AnomalyDetector)*)
(* as it is constructed and driven by api/main.py.                         *)
(*                                                                         *)
(* Time: a datetime is the number of seconds since a midnight epoch, so    *)
(* second = ts % 60, minute = (ts \div 60) % 60, and one hour is 3600.     *)
(* Floats: the values numpy computes are kept exact.  A mean is a rational *)
(* [num, den]; a standard deviation is the square root of a rational,      *)
(* kept as that rational; a z-score is sgn * sqrt(num / den), kept as      *)
(* [sgn, num, den].  Comparisons are made by cross-multiplication.         *)
(*                                                                         *)
(* The application: api/main.py runs on one asyncio event loop.  A         *)
(* coroutine keeps the loop from its resumption to its next await, so the  *)
(* request handlers and the monitoring tasks interleave at awaits only.    *)
(***************************************************************************)
EXTENDS Integers, Sequences, FiniteSets, TLC

VARIABLES
    z_threshold,      \* self.z_threshold, a rational [num, den]
    mention_history,  \* self.mention_history: ticker -> sequence of <<ts, 1>>
    now,              \* the wall clock, datetime.utcnow()
    last_inserted,    \* history variable: ticker -> timestamp of its latest add_mention
    explicit_ts,      \* history variable: some add_mention was given a timestamp
    last,             \* history variable: the latest call, its inputs and its result
    threads,          \* callers inside add_mention: thread -> position and locals
    monitoring_active,\* api/main.py: the global flag monitoring_active
    tasks,            \* api/main.py: the monitor_social_media tasks, position and locals
    running,          \* the task that holds the event loop, or 0 when it is free
    audit             \* history variable: what the monitoring tasks ingested

app_vars == <<threads, monitoring_active, tasks, running, audit>>

vars == <<z_threshold, mention_history, now, last_inserted, explicit_ts, last,
          threads, monitoring_active, tasks, running, audit>>

-----------------------------------------------------------------------------
(* Configuration and inputs *)

window_hours == 24

MaxMentions == 3

None == -1

timedelta_hours(h) == h * 60 * 60

Window == timedelta_hours(window_hours)

\* datetime.min, the earliest datetime: the epoch of the model is the midnight
\* two windows after it, so every instant below can have a window subtracted
datetime_min == 0 - 2 * Window

Tickers == {"AAA", "BBB"}

\* 00:00:00, 00:30:30, the same instants one window later, and T0 + window + 1h
Instants == {0, 1830, Window, Window + timedelta_hours(1)}

ClockValues == {0, Window, Window + timedelta_hours(1)}

Counts == {0, 1, 3, 100}

WindowMinutes == {60}

\* z_threshold = 3.0: with bucket counts (2, 1) the z-score of a current count c
\* is 2c - 3, so counts 0 and 3 lie exactly on the threshold
ZThresholds == {[num |-> 3, den |-> 1]}

EmptyMap == [t \in {} |-> <<>>]

DetectCounts == {0, 1, 100}

TickerCountInputs == UNION {[S -> DetectCounts] : S \in SUBSET Tickers}

-----------------------------------------------------------------------------
(* Exact arithmetic for the float expressions of the source *)

Sign(n) == IF n > 0 THEN 1 ELSE IF n < 0 THEN -1 ELSE 0

Zero == [sgn |-> 0, num |-> 0, den |-> 1]

\* float('nan'), what numpy returns for the mean of an empty list and for 0.0 / 0.0
NaN == [sgn |-> 0, num |-> 0, den |-> 0]

IsZero(z) == z.sgn = 0 /\ z.den # 0

RECURSIVE SeqSum(_)
SeqSum(s) == IF s = <<>> THEN 0 ELSE Head(s) + SeqSum(Tail(s))

RECURSIVE gcd(_, _)
gcd(a, b) == IF b = 0 THEN a ELSE gcd(b, a % b)

\* a fraction in lowest terms: the value is unchanged, the integers stay small
reduce(q) ==
    LET g == gcd(q.num, q.den)
    IN  IF g = 0 THEN q ELSE [num |-> q.num \div g, den |-> q.den \div g]

\* np.mean(counts): sum / N
np_mean(counts) == [num |-> SeqSum(counts), den |-> Len(counts)]

\* Mutant of np_std: the sample deviation (ddof=1), dividing by N - 1
np_std_sample(counts) ==
    LET m == np_mean(counts)
        N == Len(counts)
        sq == [i \in 1..N |-> (counts[i] * m.den - m.num) * (counts[i] * m.den - m.num)]
    IN  reduce([num |-> SeqSum(sq), den |-> m.den * m.den * (N - 1)])

\* np.std(counts): sqrt(mean(abs(x - x.mean())**2)), the population deviation.
\* x - mean = (N*x - S) / N, so the mean of the squares is sum((N*x - S)^2) / (N^2 * N).
np_std(counts) ==
    LET m == np_mean(counts)
        N == Len(counts)
        sq == [i \in 1..N |-> (counts[i] * m.den - m.num) * (counts[i] * m.den - m.num)]
    IN  reduce([num |-> SeqSum(sq), den |-> m.den * m.den * N])

\* (current_count - mean) / std
\* z^2 = (d / mean.den)^2 * (std.den / std.num), cancelling common factors crosswise
z_quotient(current_count, mean, std) ==
    LET d == current_count * mean.den - mean.num
        a == [num |-> d * d, den |-> std.num]
        b == [num |-> std.den, den |-> mean.den * mean.den]
        ra == reduce(a)
        rb == reduce(b)
    IN  [sgn |-> Sign(d), num |-> ra.num * rb.num, den |-> rb.den * ra.den]

\* abs(z_score)
abs(z) == [z EXCEPT !.sgn = IF @ < 0 THEN -@ ELSE @]

\* z >= q for a z-score z and a rational q
real_geq(z, q) ==
    IF z.sgn >= 0
    THEN q.num <= 0 \/ z.num * q.den * q.den >= q.num * q.num * z.den
    ELSE q.num < 0 /\ z.num * q.den * q.den <= q.num * q.num * z.den

\* z > q, for the mutants that make a comparison exclusive
real_gt(z, q) ==
    IF z.sgn >= 0
    THEN q.num < 0 \/ z.num * q.den * q.den > q.num * q.num * z.den
    ELSE q.num < 0 /\ z.num * q.den * q.den < q.num * q.num * z.den

-----------------------------------------------------------------------------
(* AnomalyDetector *)

\* Mutant of add_mention: the cutoff is taken from the wall clock
add_mention_wallclock(hist, clock, ticker, timestamp) ==
    LET ts == IF timestamp = None THEN clock ELSE timestamp
        old == IF ticker \in DOMAIN hist THEN hist[ticker] ELSE <<>>
        appended == Append(old, <<ts, 1>>)
        cutoff == clock - timedelta_hours(window_hours)
        kept == SelectSeq(appended, LAMBDA e : e[1] >= cutoff)
    IN  [t \in DOMAIN hist \cup {ticker} |-> IF t = ticker THEN kept ELSE hist[t]]

\* Mutant of add_mention: the entry is appended and nothing is pruned
add_mention_no_prune(hist, clock, ticker, timestamp) ==
    LET ts == IF timestamp = None THEN clock ELSE timestamp
        old == IF ticker \in DOMAIN hist THEN hist[ticker] ELSE <<>>
    IN  [t \in DOMAIN hist \cup {ticker} |->
            IF t = ticker THEN Append(old, <<ts, 1>>) ELSE hist[t]]

\* Mutant of add_mention: an entry exactly at the cutoff is dropped (ts > cutoff)
add_mention_strict(hist, clock, ticker, timestamp) ==
    LET ts == IF timestamp = None THEN clock ELSE timestamp
        old == IF ticker \in DOMAIN hist THEN hist[ticker] ELSE <<>>
        appended == Append(old, <<ts, 1>>)
        cutoff == ts - timedelta_hours(window_hours)
        kept == SelectSeq(appended, LAMBDA e : e[1] > cutoff)
    IN  [t \in DOMAIN hist \cup {ticker} |-> IF t = ticker THEN kept ELSE hist[t]]

\* Mutant of add_mention: the cutoff is applied to every ticker's history
add_mention_prune_all(hist, clock, ticker, timestamp) ==
    LET ts == IF timestamp = None THEN clock ELSE timestamp
        cutoff == ts - timedelta_hours(window_hours)
        old(t) == IF t \in DOMAIN hist THEN hist[t] ELSE <<>>
        appended(t) == IF t = ticker THEN Append(old(t), <<ts, 1>>) ELSE old(t)
    IN  [t \in DOMAIN hist \cup {ticker} |->
            SelectSeq(appended(t), LAMBDA e : e[1] >= cutoff)]

\* add_mention: the value of self.mention_history after the call
add_mention(hist, clock, ticker, timestamp) ==
    LET ts == IF timestamp = None THEN clock ELSE timestamp
        old == IF ticker \in DOMAIN hist THEN hist[ticker] ELSE <<>>
        appended == Append(old, <<ts, 1>>)
        cutoff == ts - timedelta_hours(window_hours)
        kept == SelectSeq(appended, LAMBDA e : e[1] >= cutoff)
    IN  [t \in DOMAIN hist \cup {ticker} |-> IF t = ticker THEN kept ELSE hist[t]]

\* add_mention raises OverflowError when timestamp - timedelta leaves the range of
\* datetime; the entry was appended before that, and no stored entry is older
\* than the cutoff, so the history is the one add_mention gives
add_mention_raises(clock, timestamp) ==
    LET ts == IF timestamp = None THEN clock ELSE timestamp
    IN  ts - timedelta_hours(window_hours) < datetime_min

\* self.mention_history[ticker] on a defaultdict(list): a missing key is inserted
defaultdict_getitem(hist, ticker) ==
    [t \in DOMAIN hist \cup {ticker} |-> IF t \in DOMAIN hist THEN hist[t] ELSE <<>>]

\* Mutant of history_after_get_mention_counts: no `ticker not in` test before
\* the lookup
history_after_get_mention_counts_no_guard(hist, ticker) ==
    defaultdict_getitem(hist, ticker)

\* get_mention_counts: the value of self.mention_history after the call
history_after_get_mention_counts(hist, ticker) ==
    IF ticker \notin DOMAIN hist THEN hist
    ELSE defaultdict_getitem(hist, ticker)

\* detect_anomalies: the value of self.mention_history after the loop
RECURSIVE history_after_detect_anomalies(_, _)
history_after_detect_anomalies(hist, tickers) ==
    IF tickers = {} THEN hist
    ELSE LET t == CHOOSE x \in tickers : TRUE
         IN  history_after_detect_anomalies(
                 history_after_get_mention_counts(hist, t), tickers \ {t})

\* get_mention_counts raises if now - timedelta leaves the range of datetime
get_mention_counts_raises(clock) ==
    clock - timedelta_hours(window_hours) < datetime_min

\* Mutant of window_key: window_minutes is ignored, every bucket is a clock hour
window_key_hourly(ts, window_minutes) ==
    ts - (ts % (60 * 60))

\* Mutant of window_key: the seconds are kept in the key
window_key_with_seconds(ts, window_minutes) ==
    LET minute == (ts \div 60) % 60
    IN  ts - minute * 60 + ((minute \div window_minutes) * window_minutes) * 60

\* ts.replace(second=0, microsecond=0).replace(minute=(minute // wm) * wm)
window_key(ts, window_minutes) ==
    LET zeroed == ts - (ts % 60)
        minute == (zeroed \div 60) % 60
    IN  zeroed - minute * 60 + ((minute \div window_minutes) * window_minutes) * 60

\* Mutant of count_mention: a key already present is not counted again
count_mention_once(acc, k) ==
    IF \E i \in 1..Len(acc) : acc[i][1] = k THEN acc ELSE Append(acc, <<k, 1>>)

\* one pass of the loop body: window_counts[window_key] += 1, where acc is
\* window_counts, a dict in insertion order
count_mention(acc, k) ==
    LET at == {i \in 1..Len(acc) : acc[i][1] = k}
    IN  IF at = {} THEN Append(acc, <<k, 1>>)
        ELSE [i \in 1..Len(acc) |->
                 IF i \in at THEN <<acc[i][1], acc[i][2] + 1>> ELSE acc[i]]

\* the loop over recent_mentions[from .. to], in order; it is split in halves,
\* and the first half's dict is computed before the second half starts, to keep
\* the evaluation shallow
RECURSIVE window_counts_from(_, _, _, _, _)
window_counts_from(recent, window_minutes, acc, from, to) ==
    IF from > to THEN acc
    ELSE IF from = to THEN count_mention(acc, window_key(recent[from], window_minutes))
    ELSE LET mid == (from + to) \div 2
             first == window_counts_from(recent, window_minutes, acc, from, mid)
         IN  IF first = <<>>
             THEN window_counts_from(recent, window_minutes, <<>>, mid + 1, to)
             ELSE window_counts_from(recent, window_minutes, first, mid + 1, to)

\* the loop over recent_mentions
window_counts(recent, window_minutes, acc) ==
    window_counts_from(recent, window_minutes, acc, 1, Len(recent))

\* Mutant of get_mention_counts: entries later than the clock are left out too
get_mention_counts_until_now(hist, clock, ticker, window_minutes) ==
    IF ticker \notin DOMAIN hist THEN <<>>
    ELSE LET cutoff == clock - timedelta_hours(window_hours)
             kept == SelectSeq(hist[ticker], LAMBDA e : e[1] >= cutoff /\ e[1] <= clock)
             recent_mentions == [i \in 1..Len(kept) |-> kept[i][1]]
         IN  IF recent_mentions = <<>> THEN <<>>
             ELSE LET wc == window_counts(recent_mentions, window_minutes, <<>>)
                  IN  [i \in 1..Len(wc) |-> wc[i][2]]

\* Mutant of get_mention_counts: no time filter, every stored entry is counted
get_mention_counts_unfiltered(hist, clock, ticker, window_minutes) ==
    IF ticker \notin DOMAIN hist THEN <<>>
    ELSE LET recent_mentions == [i \in 1..Len(hist[ticker]) |-> hist[ticker][i][1]]
         IN  IF recent_mentions = <<>> THEN <<>>
             ELSE LET wc == window_counts(recent_mentions, window_minutes, <<>>)
                  IN  [i \in 1..Len(wc) |-> wc[i][2]]

\* Mutant of get_mention_counts: the cutoff is exclusive (ts > cutoff)
get_mention_counts_strict(hist, clock, ticker, window_minutes) ==
    IF ticker \notin DOMAIN hist THEN <<>>
    ELSE LET cutoff == clock - timedelta_hours(window_hours)
             kept == SelectSeq(hist[ticker], LAMBDA e : e[1] > cutoff)
             recent_mentions == [i \in 1..Len(kept) |-> kept[i][1]]
         IN  IF recent_mentions = <<>> THEN <<>>
             ELSE LET wc == window_counts(recent_mentions, window_minutes, <<>>)
                  IN  [i \in 1..Len(wc) |-> wc[i][2]]

get_mention_counts(hist, clock, ticker, window_minutes) ==
    IF ticker \notin DOMAIN hist THEN <<>>
    ELSE LET cutoff == clock - timedelta_hours(window_hours)
             kept == SelectSeq(hist[ticker], LAMBDA e : e[1] >= cutoff)
             recent_mentions == [i \in 1..Len(kept) |-> kept[i][1]]
         IN  IF recent_mentions = <<>> THEN <<>>
             ELSE LET wc == window_counts(recent_mentions, window_minutes, <<>>)
                  IN  [i \in 1..Len(wc) |-> wc[i][2]]

\* Mutant of calculate_z_score: no len(counts) < 2 guard; np.mean([]) is nan
calculate_z_score_no_len_guard(hist, clock, ticker, current_count, window_minutes) ==
    LET counts == get_mention_counts(hist, clock, ticker, window_minutes)
    IN  IF Len(counts) = 0 THEN NaN
        ELSE LET mean == np_mean(counts)
                 std == np_std(counts)
             IN  IF std.num = 0 THEN Zero
                 ELSE z_quotient(current_count, mean, std)

\* Mutant of calculate_z_score: no std == 0 guard; the division yields inf or nan
calculate_z_score_no_std_guard(hist, clock, ticker, current_count, window_minutes) ==
    LET counts == get_mention_counts(hist, clock, ticker, window_minutes)
    IN  IF Len(counts) < 2 THEN Zero
        ELSE z_quotient(current_count, np_mean(counts), np_std(counts))

calculate_z_score(hist, clock, ticker, current_count, window_minutes) ==
    LET counts == get_mention_counts(hist, clock, ticker, window_minutes)
    IN  IF Len(counts) < 2 THEN Zero
        ELSE LET mean == np_mean(counts)
                 std == np_std(counts)
             IN  IF std.num = 0 THEN Zero
                 ELSE z_quotient(current_count, mean, std)

\* Mutant of is_anomaly: the comparison is exclusive (abs(z) > z_threshold)
is_anomaly_strict(hist, clock, thr, ticker, current_count, window_minutes) ==
    LET z_score == calculate_z_score(hist, clock, ticker, current_count, window_minutes)
    IN  real_gt(abs(z_score), thr)

is_anomaly(hist, clock, thr, ticker, current_count, window_minutes) ==
    LET z_score == calculate_z_score(hist, clock, ticker, current_count, window_minutes)
    IN  real_geq(abs(z_score), thr)

\* Mutant of anomaly_entry: the magnitude of the score is stored, without sign
anomaly_entry_unsigned(ticker, count, z_score) ==
    [ticker |-> ticker, mention_count |-> count, z_score |-> abs(z_score),
     is_anomaly |-> TRUE, direction |-> IF z_score.sgn > 0 THEN "surge" ELSE "drop"]

\* Mutant of anomaly_entry: the two directions are swapped
anomaly_entry_swapped(ticker, count, z_score) ==
    [ticker |-> ticker, mention_count |-> count, z_score |-> z_score,
     is_anomaly |-> TRUE, direction |-> IF z_score.sgn > 0 THEN "drop" ELSE "surge"]

anomaly_entry(ticker, count, z_score) ==
    [ticker |-> ticker, mention_count |-> count, z_score |-> z_score,
     is_anomaly |-> TRUE, direction |-> IF z_score.sgn > 0 THEN "surge" ELSE "drop"]

\* Mutant of detect_anomalies: the comparison is exclusive (abs(z) > z_threshold)
detect_anomalies_strict(hist, clock, thr, ticker_counts, window_minutes) ==
    LET z(t) == calculate_z_score(hist, clock, t, ticker_counts[t], window_minutes)
        flagged == {t \in DOMAIN ticker_counts : real_gt(abs(z(t)), thr)}
    IN  [t \in flagged |-> anomaly_entry(t, ticker_counts[t], z(t))]

\* Mutant of detect_anomalies: a full report, every input ticker is returned
detect_anomalies_unfiltered(hist, clock, thr, ticker_counts, window_minutes) ==
    LET z(t) == calculate_z_score(hist, clock, t, ticker_counts[t], window_minutes)
    IN  [t \in DOMAIN ticker_counts |-> anomaly_entry(t, ticker_counts[t], z(t))]

detect_anomalies(hist, clock, thr, ticker_counts, window_minutes) ==
    LET z(t) == calculate_z_score(hist, clock, t, ticker_counts[t], window_minutes)
        flagged == {t \in DOMAIN ticker_counts : real_geq(abs(z(t)), thr)}
    IN  [t \in flagged |-> anomaly_entry(t, ticker_counts[t], z(t))]

-----------------------------------------------------------------------------
(* The state machine *)
(* One action per public method.  A call runs to completion without        *)
(* suspending, so each action is atomic and reads the clock once; the      *)
(* clock advances between calls (Tick).  `last` records the latest call    *)
(* with the history it found, and is cleared when the clock advances, so   *)
(* a recorded result always belongs to the current state.                  *)

NoCall ==
    [op |-> "none", ticker |-> "-", timestamp |-> None, current_count |-> 0,
     window_minutes |-> 0, ticker_counts |-> EmptyMap, before |-> EmptyMap,
     result |-> None, raised |-> FALSE]

RECURSIVE TotalMentions(_, _)
TotalMentions(hist, S) ==
    IF S = {} THEN 0
    ELSE LET t == CHOOSE x \in S : TRUE
         IN  Len(hist[t]) + TotalMentions(hist, S \ {t})

\* no caller is inside add_mention, monitoring is off (main.py line 53) and no
\* monitoring task exists
NoAudit ==
    [fetched |-> 0, stored |-> 0, skipped |-> 0, failed |-> 0, calls |-> 0,
     expected |-> [t \in Tickers |-> 0]]

AppIdle ==
    /\ threads = <<>>
    /\ monitoring_active = FALSE
    /\ tasks = <<>>
    /\ running = 0
    /\ audit = NoAudit

Init ==
    /\ z_threshold \in ZThresholds
    /\ mention_history = EmptyMap
    /\ now = 0
    /\ last_inserted = EmptyMap
    /\ explicit_ts = FALSE
    /\ last = NoCall
    /\ AppIdle

Tick ==
    /\ \E c \in ClockValues : c > now /\ now' = c
    /\ last' = NoCall
    /\ UNCHANGED <<z_threshold, mention_history, last_inserted, explicit_ts>>
    /\ UNCHANGED app_vars

\* add_mention(ticker, timestamp) for inputs drawn from the given sets
AddMentionOf(tickers, timestamps, max) ==
    \E ticker \in tickers, timestamp \in timestamps :
        LET after == add_mention(mention_history, now, ticker, timestamp)
            ts == IF timestamp = None THEN now ELSE timestamp
        IN  /\ TotalMentions(after, DOMAIN after) <= max
            /\ mention_history' = after
            /\ last_inserted' =
                   [t \in DOMAIN last_inserted \cup {ticker} |->
                       IF t = ticker THEN ts ELSE last_inserted[t]]
            /\ explicit_ts' = (explicit_ts \/ timestamp # None)
            /\ last' = [NoCall EXCEPT !.op = "add_mention", !.ticker = ticker,
                                      !.timestamp = ts, !.before = mention_history,
                                      !.raised = add_mention_raises(now, timestamp)]
            /\ UNCHANGED <<z_threshold, now>>
            /\ UNCHANGED app_vars

GetMentionCountsOf(tickers, wms) ==
    \E ticker \in tickers, wm \in wms :
        /\ mention_history' = history_after_get_mention_counts(mention_history, ticker)
        /\ last' = [NoCall EXCEPT !.op = "get_mention_counts", !.ticker = ticker,
                                  !.window_minutes = wm, !.before = mention_history,
                                  !.result = get_mention_counts(mention_history, now, ticker, wm),
                                  !.raised = get_mention_counts_raises(now)]
        /\ UNCHANGED <<z_threshold, now, last_inserted, explicit_ts>>
        /\ UNCHANGED app_vars

CalculateZScoreOf(tickers, counts, wms) ==
    \E ticker \in tickers, c \in counts, wm \in wms :
        /\ mention_history' = history_after_get_mention_counts(mention_history, ticker)
        /\ last' = [NoCall EXCEPT !.op = "calculate_z_score", !.ticker = ticker,
                                  !.current_count = c, !.window_minutes = wm,
                                  !.before = mention_history,
                                  !.result = calculate_z_score(mention_history, now, ticker, c, wm),
                                  !.raised = get_mention_counts_raises(now)]
        /\ UNCHANGED <<z_threshold, now, last_inserted, explicit_ts>>
        /\ UNCHANGED app_vars

IsAnomalyOf(tickers, counts, wms) ==
    \E ticker \in tickers, c \in counts, wm \in wms :
        /\ mention_history' = history_after_get_mention_counts(mention_history, ticker)
        /\ last' = [NoCall EXCEPT !.op = "is_anomaly", !.ticker = ticker,
                                  !.current_count = c, !.window_minutes = wm,
                                  !.before = mention_history,
                                  !.result = is_anomaly(mention_history, now, z_threshold, ticker, c, wm),
                                  !.raised = get_mention_counts_raises(now)]
        /\ UNCHANGED <<z_threshold, now, last_inserted, explicit_ts>>
        /\ UNCHANGED app_vars

DetectAnomaliesOf(inputs, wms) ==
    \E tc \in inputs, wm \in wms :
        /\ mention_history' = history_after_detect_anomalies(mention_history, DOMAIN tc)
        /\ last' = [NoCall EXCEPT !.op = "detect_anomalies", !.ticker_counts = tc,
                                  !.window_minutes = wm, !.before = mention_history,
                                  !.result = detect_anomalies(mention_history, now, z_threshold, tc, wm),
                                  !.raised = (tc # EmptyMap /\ get_mention_counts_raises(now))]
        /\ UNCHANGED <<z_threshold, now, last_inserted, explicit_ts>>
        /\ UNCHANGED app_vars

AddMention == AddMentionOf(Tickers, Instants \cup {None}, MaxMentions)

GetMentionCounts == GetMentionCountsOf(Tickers, WindowMinutes)

CalculateZScore == CalculateZScoreOf(Tickers, Counts, WindowMinutes)

IsAnomaly == IsAnomalyOf(Tickers, Counts, WindowMinutes)

DetectAnomalies == DetectAnomaliesOf(TickerCountInputs, WindowMinutes)

Next ==
    \/ Tick
    \/ AddMention
    \/ GetMentionCounts
    \/ CalculateZScore
    \/ IsAnomaly
    \/ DetectAnomalies

Spec == Init /\ [][Next]_vars

-----------------------------------------------------------------------------
(* Totality: the same operations, with timestamps from the whole range of   *)
(* datetime, its lower end included.                                        *)

TotalityInstants == {datetime_min, 0, Window + timedelta_hours(1)}

AddMentionAny == AddMentionOf(Tickers, TotalityInstants \cup {None}, MaxMentions)

NextTotal ==
    \/ Tick
    \/ AddMentionAny
    \/ GetMentionCounts
    \/ CalculateZScore
    \/ IsAnomaly
    \/ DetectAnomalies

SpecTotal == Init /\ [][NextTotal]_vars

-----------------------------------------------------------------------------
(* Scenario A: z_threshold 2.5; "GME" is mentioned once or twice in each of  *)
(* the 60 minutes from 00:00 to 00:59 and 20 times in the minute 01:00; the  *)
(* clock reads 01:01:00.  The minutes with two mentions are a run at the     *)
(* start or at the end of the hour, never all 60 and never none.             *)

ScenarioADoubles ==
    {p \in (0..59) \X (0..59) :
        p[1] <= p[2] /\ (p[1] = 0 \/ p[2] = 59) /\ ~(p[1] = 0 /\ p[2] = 59)}

\* the timestamps of the scenario in chronological order: minute m at m:00,
\* and at m:30 too if it has two mentions, then 01:00:00 .. 01:00:19
ScenarioATimestamps(p) ==
    LET before == [i \in 1..p[1] |-> (i - 1) * 60]
        twice == [i \in 1..(2 * (p[2] - p[1] + 1)) |->
                     (p[1] + ((i - 1) \div 2)) * 60 + 30 * ((i - 1) % 2)]
        after == [i \in 1..(59 - p[2]) |-> (p[2] + i) * 60]
        burst == [i \in 1..20 |-> 60 * 60 + (i - 1)]
    IN  before \o twice \o after \o burst

\* add_mention(ticker, stamps[i]) for i = from .. to, in order; the calls are
\* split in halves, the first half's history computed before the second starts
RECURSIVE record_mentions(_, _, _, _, _, _)
record_mentions(hist, clock, ticker, stamps, from, to) ==
    IF from > to THEN hist
    ELSE IF from = to THEN add_mention(hist, clock, ticker, stamps[from])
    ELSE LET mid == (from + to) \div 2
             first == record_mentions(hist, clock, ticker, stamps, from, mid)
         IN  IF first = EmptyMap
             THEN record_mentions(EmptyMap, clock, ticker, stamps, mid + 1, to)
             ELSE record_mentions(first, clock, ticker, stamps, mid + 1, to)

InitScenarioA ==
    /\ z_threshold = [num |-> 5, den |-> 2]
    /\ now = 61 * 60
    /\ \E p \in ScenarioADoubles :
           LET stamps == ScenarioATimestamps(p)
           IN  mention_history =
                   record_mentions(EmptyMap, now, "GME", stamps, 1, Len(stamps))
    /\ last_inserted = [t \in {"GME"} |-> 60 * 60 + 19]
    /\ explicit_ts = TRUE
    /\ last = NoCall
    /\ AppIdle

GetMentionCountsGME == GetMentionCountsOf({"GME"}, {1})

CalculateZScoreGME == CalculateZScoreOf({"GME"}, {20}, {1})

DetectAnomaliesGME == DetectAnomaliesOf({[t \in {"GME"} |-> 20]}, {1})

NextScenarioA ==
    \/ GetMentionCountsGME
    \/ CalculateZScoreGME
    \/ DetectAnomaliesGME

SpecScenarioA == InitScenarioA /\ [][NextScenarioA]_vars

-----------------------------------------------------------------------------
(* Retention and counting: the inserts and the clock of Spec, with fewer    *)
(* query inputs.                                                            *)

CalculateZScoreFew == CalculateZScoreOf(Tickers, {0, 100}, WindowMinutes)

DetectAnomaliesFew ==
    DetectAnomaliesOf({[t \in Tickers |-> 100], [t \in Tickers |-> 0]}, WindowMinutes)

NextRetention ==
    \/ Tick
    \/ AddMention
    \/ GetMentionCounts
    \/ CalculateZScoreFew
    \/ DetectAnomaliesFew

SpecRetention == Init /\ [][NextRetention]_vars

-----------------------------------------------------------------------------
(* Callers of add_mention on one ticker.  Either every call runs as one     *)
(* step, as it does on the event loop of api/main.py where add_mention has  *)
(* no await, or two threads run it statement by statement: the append of    *)
(* line 35, the list comprehension of lines 39-42 that reads the stored     *)
(* list and builds the filtered copy, and the assignment of that copy.      *)

Threads == {1, 2}

IdleThread == [pc |-> "idle", ticker |-> "-", ts |-> None, copy |-> <<>>]

InitThreads ==
    /\ z_threshold \in ZThresholds
    /\ mention_history = EmptyMap
    /\ now = 0
    /\ last_inserted = EmptyMap
    /\ explicit_ts = FALSE
    /\ last = NoCall
    /\ \E a \in BOOLEAN :
           threads = [atomic |-> a, inserted |-> <<>>, th |-> [t \in Threads |-> IdleThread]]
    /\ monitoring_active = FALSE
    /\ tasks = <<>>
    /\ running = 0
    /\ audit = NoAudit

\* calls begun and not yet past their append
PendingAppends == Cardinality({t \in Threads : threads.th[t].pc = "append"})

\* a whole add_mention as one step
AtomicAddMention(t) ==
    /\ threads.atomic
    /\ Len(threads.inserted) < MaxMentions
    /\ \E timestamp \in Instants \cup {None} :
           LET ts == IF timestamp = None THEN now ELSE timestamp
           IN  /\ mention_history' = add_mention(mention_history, now, "AAA", timestamp)
               /\ threads' = [threads EXCEPT !.inserted = Append(@, ts)]
    /\ UNCHANGED <<z_threshold, now, last_inserted, explicit_ts, last,
                   monitoring_active, tasks, running, audit>>

\* lines 32-33: the call is entered and the timestamp defaulted
ThreadCall(t) ==
    /\ ~threads.atomic
    /\ threads.th[t].pc = "idle"
    /\ Len(threads.inserted) + PendingAppends < MaxMentions
    /\ \E timestamp \in Instants \cup {None} :
           threads' = [threads EXCEPT !.th[t] =
               [pc |-> "append", ticker |-> "AAA",
                ts |-> IF timestamp = None THEN now ELSE timestamp, copy |-> <<>>]]
    /\ UNCHANGED <<z_threshold, mention_history, now, last_inserted, explicit_ts, last,
                   monitoring_active, tasks, running, audit>>

\* line 35: self.mention_history[ticker].append((timestamp, 1))
ThreadAppend(t) ==
    LET me == threads.th[t]
        stored == defaultdict_getitem(mention_history, me.ticker)
    IN  /\ me.pc = "append"
        /\ mention_history' =
               [stored EXCEPT ![me.ticker] = Append(@, <<me.ts, 1>>)]
        /\ threads' = [threads EXCEPT !.th[t].pc = "filter",
                                      !.inserted = Append(@, me.ts)]
        /\ UNCHANGED <<z_threshold, now, last_inserted, explicit_ts, last,
                       monitoring_active, tasks, running, audit>>

\* lines 38, 40-42: the cutoff, and the comprehension over the stored list
ThreadFilter(t) ==
    LET me == threads.th[t]
        cutoff == me.ts - timedelta_hours(window_hours)
    IN  /\ me.pc = "filter"
        /\ threads' = [threads EXCEPT !.th[t].pc = "assign",
               !.th[t].copy = SelectSeq(mention_history[me.ticker],
                                        LAMBDA e : e[1] >= cutoff)]
        /\ UNCHANGED <<z_threshold, mention_history, now, last_inserted, explicit_ts,
                       last, monitoring_active, tasks, running, audit>>

\* line 39: self.mention_history[ticker] = the copy
ThreadAssign(t) ==
    LET me == threads.th[t]
    IN  /\ me.pc = "assign"
        /\ mention_history' = [mention_history EXCEPT ![me.ticker] = me.copy]
        /\ threads' = [threads EXCEPT !.th[t] = IdleThread]
        /\ UNCHANGED <<z_threshold, now, last_inserted, explicit_ts, last,
                       monitoring_active, tasks, running, audit>>

NextThreads ==
    \E t \in Threads :
        \/ AtomicAddMention(t)
        \/ ThreadCall(t)
        \/ ThreadAppend(t)
        \/ ThreadFilter(t)
        \/ ThreadAssign(t)

SpecThreads == InitThreads /\ [][NextThreads]_vars

-----------------------------------------------------------------------------
(* api/main.py: start_monitoring, stop_monitoring, shutdown_event and the   *)
(* monitor_social_media tasks, on one event loop.  running = 0: the loop is *)
(* free, a handler may run or a suspended task may be resumed; running = l: *)
(* task l runs, up to its next await.                                       *)
(*                                                                          *)
(* One iteration of monitor_social_media: the Reddit posts (lines 682-701), *)
(* the Reddit comments (704-723), the news of up to 100 tickers with an     *)
(* await every 5 tickers (1026-1071), then line 1085, `time.time()`.  The   *)
(* module never imports time, so line 1085 raises NameError in every        *)
(* iteration and the iteration ends in the handler of lines 1283-1285, a    *)
(* sleep of 60 seconds.  `from datetime import datetime, timezone` at line  *)
(* 1126 makes datetime a local name of the whole function, never bound      *)
(* before line 1051 reads it: building news_mention raises                  *)
(* UnboundLocalError, which lines 1064-1071 catch, so the add_mention of    *)
(* line 1062 is never reached and the news section changes no state.        *)

MaxStarts == 2

MaxItems == 11

MaxFeed == 2

MaxNewsBatches == 2

PostLimit == 10

Loops == 1..MaxStarts

\* post["tickers"] of the items the stream yields (never empty, reddit_monitor.py
\* lines 50-51)
ItemTickers == {<<"AAA">>, <<"AAA", "BBB">>}

NoTask ==
    [pc |-> "none", phase |-> "-", count |-> 0, item |-> <<>>, k |-> 0, batches |-> 0]

InitMonitor ==
    /\ z_threshold \in ZThresholds
    /\ mention_history = EmptyMap
    /\ now = 0
    /\ last_inserted = EmptyMap
    /\ explicit_ts = FALSE
    /\ last = NoCall
    /\ threads = <<>>
    /\ monitoring_active = FALSE
    /\ \E subreddit, client \in BOOLEAN :
           tasks = [subreddit |-> subreddit, client |-> client, db |-> FALSE,
                    shut |-> FALSE, response |-> "-", started |-> 0,
                    loop |-> [l \in Loops |-> NoTask]]
    /\ running = 0
    /\ audit = NoAudit

DetectorUnchanged ==
    UNCHANGED <<z_threshold, mention_history, now, last_inserted, explicit_ts, last, threads>>

\* Mutant of while_condition: the loop never looks at the flag
while_condition_true(active) == TRUE

\* line 676: while monitoring_active
while_condition(active) == active

\* Mutant of tickers_to_mention: only the first ticker of the item is recorded
tickers_to_mention_first(item) == <<item[1]>>

\* lines 695 and 717: for ticker in post.get("tickers", [])
tickers_to_mention(item) == item

\* lines 687-690: the item is processed unless monitoring stopped or the limit
\* of the iteration is reached
item_accepted(active, count) == active /\ count < PostLimit

\* how often a ticker occurs in a list of tickers
TickerCount(tks, t) == Cardinality({i \in 1..Len(tks) : tks[i] = t})

\* lines 592-629: start_monitoring
StartMonitoringOf(maxStarts) ==
    /\ running = 0
    /\ ~tasks.shut
    /\ IF monitoring_active
       THEN /\ tasks' = [tasks EXCEPT !.response = "already active"]
            /\ UNCHANGED monitoring_active
       ELSE /\ tasks.started < maxStarts
            /\ monitoring_active' = TRUE
            /\ tasks' = [tasks EXCEPT !.response = "started",
                                      !.started = @ + 1,
                                      !.loop[tasks.started + 1].pc = "scheduled"]
    /\ UNCHANGED <<running, audit>>
    /\ DetectorUnchanged

\* lines 633-637: stop_monitoring
StopMonitoring ==
    /\ running = 0
    /\ ~tasks.shut
    /\ monitoring_active' = FALSE
    /\ tasks' = [tasks EXCEPT !.response = "stopped"]
    /\ UNCHANGED <<running, audit>>
    /\ DetectorUnchanged

\* lines 63-66: shutdown_event; no request is served after it
ShutdownEvent ==
    /\ running = 0
    /\ ~tasks.shut
    /\ monitoring_active' = FALSE
    /\ tasks' = [tasks EXCEPT !.shut = TRUE]
    /\ UNCHANGED <<running, audit>>
    /\ DetectorUnchanged

\* the task leaves the Reddit part of the iteration: the news section, whose
\* first await is the sleep of line 1031, or line 1085 at once and the sleep of
\* line 1285
AfterReddit(task) ==
    IF tasks.client /\ MaxNewsBatches > 0
    THEN [task EXCEPT !.pc = "sleep_news", !.batches = MaxNewsBatches - 1,
                      !.item = <<>>, !.k = 0, !.count = 0, !.phase = "-"]
    ELSE [task EXCEPT !.pc = "sleep_error", !.batches = 0,
                      !.item = <<>>, !.k = 0, !.count = 0, !.phase = "-"]

\* a for loop over a stream ends (break, or an exception caught at line 700 or
\* 722): after the posts come the comments, after the comments the news
PhaseEnds(task) ==
    IF task.phase = "posts"
    THEN [task EXCEPT !.pc = "next", !.phase = "comments", !.count = 0,
                      !.item = <<>>, !.k = 0]
    ELSE AfterReddit(task)

Suspends(task) == task.pc \in {"sleep_news", "sleep_error"}

\* lines 659-674: the task starts and get_db() returns the database
TaskBegin(l) ==
    /\ running = 0
    /\ tasks.loop[l].pc = "scheduled"
    /\ tasks' = [tasks EXCEPT !.db = TRUE, !.loop[l].pc = "while"]
    /\ running' = l
    /\ UNCHANGED <<monitoring_active, audit>>
    /\ DetectorUnchanged

\* lines 659-663: get_db() returns None, the task clears the flag and returns
TaskBeginNoDb(l) ==
    /\ running = 0
    /\ tasks.loop[l].pc = "scheduled"
    /\ ~tasks.db
    /\ monitoring_active' = FALSE
    /\ tasks' = [tasks EXCEPT !.loop[l].pc = "done"]
    /\ UNCHANGED <<running, audit>>
    /\ DetectorUnchanged

\* line 676, and lines 680-682 when the loop goes on
WhileCheck(l) ==
    LET task == tasks.loop[l]
        entered == IF tasks.subreddit
                   THEN [task EXCEPT !.pc = "next", !.phase = "posts", !.count = 0]
                   ELSE AfterReddit(task)
    IN  /\ running = l
        /\ task.pc = "while"
        /\ IF while_condition(monitoring_active)
           THEN /\ tasks' = [tasks EXCEPT !.loop[l] = entered]
                /\ running' = IF Suspends(entered) THEN 0 ELSE l
           ELSE /\ tasks' = [tasks EXCEPT !.loop[l].pc = "done"]
                /\ running' = 0
        /\ UNCHANGED <<monitoring_active, audit>>
        /\ DetectorUnchanged

\* lines 686 and 708: the stream yields the next item
StreamNextOf(l, maxItems) ==
    /\ running = l
    /\ tasks.loop[l].pc = "next"
    /\ audit.fetched < maxItems
    /\ \E tks \in ItemTickers :
           tasks' = [tasks EXCEPT !.loop[l].pc = "item", !.loop[l].item = tks]
    /\ audit' = [audit EXCEPT !.fetched = @ + 1]
    /\ UNCHANGED <<monitoring_active, running>>
    /\ DetectorUnchanged

\* lines 686/700 and 708/722: the stream raises, the handler ends the for loop
StreamRaises(l) ==
    LET left == PhaseEnds(tasks.loop[l])
    IN  /\ running = l
        /\ tasks.loop[l].pc = "next"
        /\ tasks' = [tasks EXCEPT !.loop[l] = left]
        /\ running' = IF Suspends(left) THEN 0 ELSE l
        /\ UNCHANGED <<monitoring_active, audit>>
        /\ DetectorUnchanged

\* lines 687-693 and 709-715: the two checks, then insert_social_mention
ItemCheck(l) ==
    LET task == tasks.loop[l]
        left == PhaseEnds(task)
    IN  /\ running = l
        /\ task.pc = "item"
        /\ IF item_accepted(monitoring_active, task.count)
           THEN /\ tasks' = [tasks EXCEPT !.loop[l].pc = "mention", !.loop[l].k = 0]
                /\ audit' = [audit EXCEPT
                       !.stored = @ + 1,
                       !.expected = [t \in Tickers |-> @[t] + TickerCount(task.item, t)]]
                /\ UNCHANGED running
           ELSE /\ tasks' = [tasks EXCEPT !.loop[l] = left]
                /\ audit' = [audit EXCEPT !.skipped = @ + 1]
                /\ running' = IF Suspends(left) THEN 0 ELSE l
        /\ UNCHANGED monitoring_active
        /\ DetectorUnchanged

\* lines 692/700 and 714/722: insert_social_mention raises, the for loop ends
StoreRaises(l) ==
    LET task == tasks.loop[l]
        left == PhaseEnds(task)
    IN  /\ running = l
        /\ task.pc = "item"
        /\ item_accepted(monitoring_active, task.count)
        /\ tasks' = [tasks EXCEPT !.loop[l] = left]
        /\ audit' = [audit EXCEPT !.failed = @ + 1]
        /\ running' = IF Suspends(left) THEN 0 ELSE l
        /\ UNCHANGED monitoring_active
        /\ DetectorUnchanged

\* lines 695-697 and 717-719: anomaly_detector.add_mention(ticker) for the next
\* ticker of the item, or post_count += 1 after the last one
Mention(l) ==
    LET task == tasks.loop[l]
        tks == tickers_to_mention(task.item)
    IN  /\ running = l
        /\ task.pc = "mention"
        /\ IF task.k < Len(tks)
           THEN LET ticker == tks[task.k + 1]
                IN  /\ mention_history' = add_mention(mention_history, now, ticker, None)
                    /\ last_inserted' =
                           [t \in DOMAIN last_inserted \cup {ticker} |->
                               IF t = ticker THEN now ELSE last_inserted[t]]
                    /\ last' = [NoCall EXCEPT !.op = "add_mention", !.ticker = ticker,
                                              !.timestamp = now,
                                              !.before = mention_history,
                                              !.raised = add_mention_raises(now, None)]
                    /\ tasks' = [tasks EXCEPT !.loop[l].k = @ + 1]
                    /\ audit' = [audit EXCEPT !.calls = @ + 1]
           ELSE /\ tasks' = [tasks EXCEPT !.loop[l].pc = "next",
                                          !.loop[l].count = @ + 1,
                                          !.loop[l].item = <<>>, !.loop[l].k = 0]
                /\ UNCHANGED <<mention_history, last_inserted, last, audit>>
        /\ UNCHANGED <<z_threshold, now, explicit_ts, threads, monitoring_active, running>>

\* lines 1026-1071: the sleep of line 1031 (or 1068) ends; the task reads the
\* news of the next tickers and sleeps again, or is through the list, reaches
\* line 1085 and sleeps at line 1285
ResumeNews(l) ==
    /\ running = 0
    /\ tasks.loop[l].pc = "sleep_news"
    /\ tasks' = IF tasks.loop[l].batches > 0
                THEN [tasks EXCEPT !.loop[l].batches = @ - 1]
                ELSE [tasks EXCEPT !.loop[l].pc = "sleep_error"]
    /\ UNCHANGED <<monitoring_active, running, audit>>
    /\ DetectorUnchanged

\* line 1285: the sleep ends, the task is back at the while
ResumeError(l) ==
    /\ running = 0
    /\ tasks.loop[l].pc = "sleep_error"
    /\ tasks' = [tasks EXCEPT !.loop[l].pc = "while"]
    /\ running' = l
    /\ UNCHANGED <<monitoring_active, audit>>
    /\ DetectorUnchanged

TaskStepOf(maxItems) ==
    \E l \in Loops :
        \/ TaskBegin(l)
        \/ TaskBeginNoDb(l)
        \/ WhileCheck(l)
        \/ StreamNextOf(l, maxItems)
        \/ StreamRaises(l)
        \/ ItemCheck(l)
        \/ StoreRaises(l)
        \/ Mention(l)
        \/ ResumeNews(l)
        \/ ResumeError(l)

\* one monitoring task, with enough items to reach the limit of an iteration
NextIngest ==
    \/ StartMonitoringOf(1)
    \/ StopMonitoring
    \/ ShutdownEvent
    \/ TaskStepOf(MaxItems)

SpecIngest == InitMonitor /\ [][NextIngest]_vars

\* start and stop requests in any order, with few items
TaskStep == TaskStepOf(MaxFeed)

NextMonitor ==
    \/ StartMonitoringOf(MaxStarts)
    \/ StopMonitoring
    \/ ShutdownEvent
    \/ TaskStep

SpecMonitor == InitMonitor /\ [][NextMonitor]_vars

\* what the event loop guarantees: a scheduled task starts, a sleep ends, and
\* a task at the while goes on; nothing is assumed of the blocking stream
Scheduled ==
    \E l \in Loops :
        TaskBegin(l) \/ TaskBeginNoDb(l) \/ WhileCheck(l) \/ ResumeNews(l) \/ ResumeError(l)

SpecMonitorFair == SpecMonitor /\ WF_vars(Scheduled)

-----------------------------------------------------------------------------
(* Bucketing: one ticker, timestamps at chosen clock positions, and window  *)
(* sizes that divide 60, do not divide 60, and exceed 60.                   *)

MaxProbes == 2

\* 00:00:00, 00:00:30, 00:50:00, 00:58:00, 01:01:00, 01:10:00 and 00:00:00 of
\* the next day
ProbeInstants == {0, 30, 50 * 60, 58 * 60, 61 * 60, 70 * 60, Window}

ProbeWindowMinutes == {1, 7, 45, 60, 90}

InitBuckets ==
    /\ z_threshold \in ZThresholds
    /\ mention_history = EmptyMap
    /\ now = Window
    /\ last_inserted = EmptyMap
    /\ explicit_ts = FALSE
    /\ last = NoCall
    /\ AppIdle

AddProbe == AddMentionOf({"AAA"}, ProbeInstants, MaxProbes)

GetProbeCounts == GetMentionCountsOf({"AAA"}, ProbeWindowMinutes)

NextBuckets ==
    \/ Tick
    \/ AddProbe
    \/ GetProbeCounts

SpecBuckets == InitBuckets /\ [][NextBuckets]_vars

-----------------------------------------------------------------------------
(* Properties *)

\* the entries of a history, and the counts a query sees in the current state
Timestamps(h) == {h[i][1] : i \in 1..Len(h)}

CountsNow(ticker, window_minutes) ==
    get_mention_counts(mention_history, now, ticker, window_minutes)

AllEqual(counts) == \A i, j \in 1..Len(counts) : counts[i] = counts[j]

RECURSIVE SumOfSquares(_)
SumOfSquares(s) == IF s = <<>> THEN 0 ELSE Head(s) * Head(s) + SumOfSquares(Tail(s))

HistoryBefore(ticker) ==
    IF ticker \in DOMAIN last.before THEN last.before[ticker] ELSE <<>>

\* C1: for every ticker, every retained entry's timestamp is at least the
\* timestamp passed to the latest add_mention for that ticker minus window_hours.
C1_PruningInvariant ==
    \A t \in DOMAIN mention_history :
        \A ts \in Timestamps(mention_history[t]) : ts >= last_inserted[t] - Window

\* C1 witness: an add_mention that pruned an old entry and kept another one.
C1_Witness ==
    /\ last.op = "add_mention"
    /\ Len(mention_history[last.ticker]) >= 2
    /\ Len(mention_history[last.ticker]) <= Len(HistoryBefore(last.ticker))

\* C2 (as stated): in every state every retained entry lies in [now - window, now].
C2_Original ==
    \A t \in DOMAIN mention_history :
        \A ts \in Timestamps(mention_history[t]) : now - Window <= ts /\ ts <= now

\* C2 (amended): while every add_mention so far took the wall clock as its
\* timestamp (the default) and the clock never runs backwards, every retained
\* entry is at most now, and right after an add_mention for a ticker, before the
\* clock advances, every retained entry of that ticker is at least now - window.
C2_Amended ==
    ~explicit_ts =>
        /\ \A t \in DOMAIN mention_history :
               \A ts \in Timestamps(mention_history[t]) : ts <= now
        /\ last.op = "add_mention" =>
               \A ts \in Timestamps(mention_history[last.ticker]) : ts >= now - Window

\* C2 witness: default-timestamp inserts only, the latest one kept an entry
\* that lies exactly at now - window.
C2_Witness ==
    /\ ~explicit_ts
    /\ last.op = "add_mention"
    /\ Len(mention_history[last.ticker]) >= 2
    /\ now - Window \in Timestamps(mention_history[last.ticker])

\* C3: add_mention(t, ts) sets t's history to the previously retained entries
\* with timestamp >= ts - window (the boundary kept), in their order, followed
\* by (ts, 1); one mention at T0 and one at T0 + window + 1h leave one entry.
C3_AddMentionEffect ==
    last.op = "add_mention" =>
        LET old == HistoryBefore(last.ticker)
            ts == last.timestamp
        IN  /\ mention_history[last.ticker] =
                   Append(SelectSeq(old, LAMBDA e : e[1] >= ts - Window), <<ts, 1>>)
            /\ (Len(old) = 1 /\ ts = old[1][1] + Window + 3600) =>
                   Len(mention_history[last.ticker]) = 1

\* C3 witness: Scenario D, a mention at T0 = 0 and then one at T0 + window + 1h.
C3_Witness ==
    /\ last.op = "add_mention"
    /\ HistoryBefore(last.ticker) = << <<0, 1>> >>
    /\ last.timestamp = Window + 3600
    /\ mention_history[last.ticker] = << <<Window + 3600, 1>> >>

\* C4: calculate_z_score returns 0.0 whenever get_mention_counts yields fewer
\* than 2 buckets, whatever the current count.
C4_InsufficientData ==
    (last.op = "calculate_z_score"
        /\ Len(CountsNow(last.ticker, last.window_minutes)) < 2)
    => last.result = Zero

\* C4 witness: a mentioned ticker whose mentions are all filtered out, count 100.
C4_Witness ==
    /\ last.op = "calculate_z_score"
    /\ last.ticker \in DOMAIN mention_history
    /\ CountsNow(last.ticker, last.window_minutes) = <<>>
    /\ last.current_count = 100
    /\ last.result = Zero

\* C5: with at least 2 buckets that all hold the same count, calculate_z_score
\* returns 0.0 for every current count, and is_anomaly is false for a positive
\* threshold.
C5_ZeroVariance ==
    LET counts == CountsNow(last.ticker, last.window_minutes)
    IN  /\ (last.op = "calculate_z_score" /\ Len(counts) >= 2 /\ AllEqual(counts))
               => last.result = Zero
        /\ (last.op = "is_anomaly" /\ Len(counts) >= 2 /\ AllEqual(counts)
               /\ z_threshold.num > 0)
               => last.result = FALSE

\* C5 witness: is_anomaly with count 100 against two buckets of one mention each.
C5_Witness ==
    /\ last.op = "is_anomaly"
    /\ CountsNow(last.ticker, last.window_minutes) = <<1, 1>>
    /\ last.current_count = 100
    /\ z_threshold.num > 0
    /\ last.result = FALSE

\* C6: with N >= 2 bucket counts that are not all equal, the z-score z has the
\* sign of N*c - S and z^2 * (N*Q - S^2) = (N*c - S)^2, where S is the sum and Q
\* the sum of squares of the counts (the population deviation, dividing by N).
C6_PopulationZScore ==
    LET counts == CountsNow(last.ticker, last.window_minutes)
        N == Len(counts)
        S == SeqSum(counts)
        Q == SumOfSquares(counts)
        c == last.current_count
        z == last.result
    IN  (last.op = "calculate_z_score" /\ N >= 2 /\ ~AllEqual(counts)) =>
            /\ z.sgn = Sign(N * c - S)
            /\ z.den > 0
            /\ z.num * (N * Q - S * S) = z.den * (N * c - S) * (N * c - S)

\* C6 witness: counts 2 and 1 and a current count of 100, z = 197.
C6_Witness ==
    /\ last.op = "calculate_z_score"
    /\ CountsNow(last.ticker, last.window_minutes) = <<2, 1>>
    /\ last.current_count = 100
    /\ last.result.sgn = 1
    /\ last.result.num = 197 * 197 * last.result.den

\* C7: is_anomaly is true iff abs(z) >= z_threshold; a z-score whose magnitude
\* equals the threshold is flagged, whether positive or negative.
C7_ThresholdInclusive ==
    LET z == calculate_z_score(mention_history, now, last.ticker,
                               last.current_count, last.window_minutes)
        q == z_threshold
        zz == z.num * q.den * q.den
        qq == q.num * q.num * z.den
    IN  (last.op = "is_anomaly" /\ q.num >= 0) =>
            /\ last.result = (zz >= qq)
            /\ (zz = qq) => last.result = TRUE

\* C7 witness: a negative z-score exactly at the threshold is flagged.
C7_Witness ==
    LET z == calculate_z_score(mention_history, now, last.ticker,
                               last.current_count, last.window_minutes)
    IN  /\ last.op = "is_anomaly"
        /\ z.sgn = -1
        /\ z.num * z_threshold.den * z_threshold.den
               = z_threshold.num * z_threshold.num * z.den
        /\ last.result = TRUE

\* C8: the keys of detect_anomalies(ticker_counts, wm) are exactly the input
\* tickers for which is_anomaly is true in the same state at the same time.
C8_DetectFilters ==
    last.op = "detect_anomalies" =>
        DOMAIN last.result =
            {t \in DOMAIN last.ticker_counts :
                is_anomaly(mention_history, now, z_threshold, t,
                           last.ticker_counts[t], last.window_minutes)}

\* C8 witness: two input tickers, one of them returned and the other not.
C8_Witness ==
    /\ last.op = "detect_anomalies"
    /\ DOMAIN last.ticker_counts = Tickers
    /\ Cardinality(DOMAIN last.result) = 1

\* C9: every returned entry with z_score > 0 has direction 'surge', every one
\* with z_score < 0 has direction 'drop', and direction is nothing else.
C9_DirectionSign ==
    last.op = "detect_anomalies" =>
        \A t \in DOMAIN last.result :
            LET e == last.result[t]
            IN  /\ e.z_score.sgn > 0 => e.direction = "surge"
                /\ e.z_score.sgn < 0 => e.direction = "drop"
                /\ e.direction \in {"surge", "drop"}

\* C9 witness: a returned entry with a negative z-score and direction 'drop'.
C9_Witness ==
    /\ last.op = "detect_anomalies"
    /\ \E t \in DOMAIN last.result :
           last.result[t].z_score.sgn < 0 /\ last.result[t].direction = "drop"

\* C10: with z_threshold > 0 no returned entry has z_score 0; a ticker with no
\* history, fewer than 2 buckets or constant buckets is never returned; and
\* detect_anomalies({'AAA': 100, 'BBB': 1}) on an empty detector returns {}.
C10_NoZeroScoreReported ==
    (last.op = "detect_anomalies" /\ z_threshold.num > 0) =>
        /\ \A t \in DOMAIN last.result : ~IsZero(last.result[t].z_score)
        /\ \A t \in DOMAIN last.ticker_counts :
               LET counts == CountsNow(t, last.window_minutes)
               IN  (t \notin DOMAIN mention_history \/ Len(counts) < 2 \/ AllEqual(counts))
                       => t \notin DOMAIN last.result
        /\ (mention_history = EmptyMap
                /\ last.ticker_counts = [t \in {"AAA", "BBB"} |-> IF t = "AAA" THEN 100 ELSE 1])
               => last.result = EmptyMap

\* C10 witness: Scenario C, no history for either ticker and an empty result.
C10_Witness ==
    /\ last.op = "detect_anomalies"
    /\ z_threshold.num > 0
    /\ mention_history = EmptyMap
    /\ last.ticker_counts = [t \in {"AAA", "BBB"} |-> IF t = "AAA" THEN 100 ELSE 1]
    /\ last.result = EmptyMap

ReadOps == {"get_mention_counts", "calculate_z_score", "is_anomaly", "detect_anomalies"}

\* C11: every entry detect_anomalies returns under key t has ticker = t,
\* mention_count = the input count for t, z_score = calculate_z_score(t, that
\* count, window_minutes), is_anomaly = true and direction surge or drop.
C11_EntryFields ==
    last.op = "detect_anomalies" =>
        \A t \in DOMAIN last.result :
            LET e == last.result[t]
            IN  /\ DOMAIN e = {"ticker", "mention_count", "z_score", "is_anomaly", "direction"}
                /\ e.ticker = t
                /\ t \in DOMAIN last.ticker_counts
                /\ e.mention_count = last.ticker_counts[t]
                /\ e.z_score = calculate_z_score(last.before, now, t,
                                                 last.ticker_counts[t], last.window_minutes)
                /\ e.is_anomaly = TRUE
                /\ e.direction \in {"surge", "drop"}

\* C11 witness: of two input tickers one is returned, and its entry carries the
\* ticker, the input count 100 and a positive score.
C11_Witness ==
    /\ last.op = "detect_anomalies"
    /\ DOMAIN last.ticker_counts = Tickers
    /\ \E t \in Tickers :
           /\ DOMAIN last.result = {t}
           /\ last.result[t].ticker = t
           /\ last.result[t].mention_count = 100
           /\ last.result[t].z_score.sgn > 0
           /\ last.result[t].is_anomaly

\* C12: detect_anomalies, is_anomaly, calculate_z_score and get_mention_counts
\* leave the history map as it was: same keys, same entries, no empty history
\* for a ticker never mentioned, and no pruning of entries older than the cutoff.
C12_ReadsLeaveState ==
    last.op \in ReadOps => mention_history = last.before

\* C12 witness: a query for a ticker never mentioned, while another ticker still
\* holds an entry older than the wall-clock cutoff.
C12_Witness ==
    /\ last.op \in {"get_mention_counts", "calculate_z_score", "is_anomaly"}
    /\ last.ticker \notin DOMAIN last.before
    /\ \E t \in DOMAIN mention_history :
           \E ts \in Timestamps(mention_history[t]) : ts < now - Window

\* C13: get_mention_counts counts only the entries whose timestamp lies in
\* [now - window_hours, now]; older entries and entries later than now
\* contribute to no bucket.
C13_OnlyLastWindowCounted ==
    last.op = "get_mention_counts" =>
        LET h == HistoryBefore(last.ticker)
        IN  SeqSum(last.result) =
                Cardinality({i \in 1..Len(h) : now - Window <= h[i][1] /\ h[i][1] <= now})

\* C16: get_mention_counts returns the empty sequence iff the ticker has no
\* history or none of its entries has timestamp >= now - window_hours.
C16_EmptyIff ==
    last.op = "get_mention_counts" =>
        ((last.result = <<>>) <=>
            (\/ last.ticker \notin DOMAIN mention_history
             \/ \A ts \in Timestamps(mention_history[last.ticker]) : ts < now - Window))

\* C16 witness: a ticker whose only entries are older than the cutoff gives the
\* empty sequence, although it has a history.
C16_Witness ==
    /\ last.op = "get_mention_counts"
    /\ last.ticker \in DOMAIN mention_history
    /\ mention_history[last.ticker] # <<>>
    /\ last.result = <<>>

\* the history with the entries of the ticker's most recent window taken out
PriorWindows(hist, clock, ticker, window_minutes) ==
    LET h == IF ticker \in DOMAIN hist THEN hist[ticker] ELSE <<>>
        keys == {window_key(h[i][1], window_minutes) :
                     i \in {j \in 1..Len(h) : h[j][1] >= clock - Window}}
        newest == CHOOSE k \in keys : \A other \in keys : other <= k
    IN  IF keys = {} THEN hist
        ELSE [t \in DOMAIN hist |->
                 IF t = ticker
                 THEN SelectSeq(hist[t], LAMBDA e : window_key(e[1], window_minutes) # newest)
                 ELSE hist[t]]

\* C19: the baseline calculate_z_score compares current_count against holds only
\* the counts of the windows before the most recent one: the score equals the
\* score computed over the history without the most recent window's mentions.
C19_BaselineExcludesCurrentWindow ==
    last.op = "calculate_z_score" =>
        last.result = calculate_z_score(
                          PriorWindows(last.before, now, last.ticker, last.window_minutes),
                          now, last.ticker, last.current_count, last.window_minutes)

\* C20: the key set never shrinks and no key's history is empty: a ticker passed
\* to add_mention is a key with a non-empty history from then on, whatever
\* operation or clock advance follows.
C20_KeysNeverShrink ==
    [][/\ \A t \in DOMAIN mention_history :
              t \in DOMAIN mention_history' /\ mention_history'[t] # <<>>
       /\ last'.op = "add_mention" =>
              /\ last'.ticker \in DOMAIN mention_history'
              /\ mention_history'[last'.ticker] # <<>>]_vars

\* C20 witness: an add_mention that pruned every older entry of its ticker, which
\* is still a key, beside another ticker whose entries are all older than the
\* wall-clock cutoff and which is still a key too.
C20_Witness ==
    /\ last.op = "add_mention"
    /\ Len(HistoryBefore(last.ticker)) >= 2
    /\ Len(mention_history[last.ticker]) = 1
    /\ \E u \in DOMAIN mention_history :
           /\ u # last.ticker
           /\ \A ts \in Timestamps(mention_history[u]) : ts < now - Window

\* the timestamps of the queried ticker that the latest query kept
Surviving == {ts \in Timestamps(HistoryBefore(last.ticker)) : ts >= now - Window}

\* C14: for every window_minutes the buckets are windows of exactly
\* window_minutes minutes: a timestamp inside the window_minutes-long window
\* that starts at another timestamp's bucket start shares its bucket, and two
\* timestamps window_minutes or more apart never share one.
C14_WindowsSpanWindowMinutes ==
    last.op = "get_mention_counts" =>
        \A a, b \in Surviving :
            LET wm == last.window_minutes
                start == window_key(a, wm)
            IN  /\ (start <= b /\ b < start + wm * 60) => window_key(b, wm) = start
                /\ (b - a >= wm * 60) => window_key(b, wm) # start

\* date, hour of the day and floor(minute / window_minutes) of a timestamp
DateHourSlot(ts, window_minutes) ==
    <<ts \div (24 * 60 * 60), (ts \div (60 * 60)) % 24, ((ts \div 60) % 60) \div window_minutes>>

\* C15: the bucket key is the timestamp with seconds zeroed and minute replaced
\* by floor(minute / window_minutes) * window_minutes; two surviving timestamps
\* share a bucket iff date, hour and floor(minute / window_minutes) agree; with
\* window_minutes = 60 the buckets are the clock hours; nothing else (oldest
\* entry, insertion order, now) enters the key.
C15_CalendarBuckets ==
    last.op = "get_mention_counts" =>
        LET wm == last.window_minutes
            h == HistoryBefore(last.ticker)
            kept == {i \in 1..Len(h) : h[i][1] >= now - Window}
            minute(ts) == (ts \div 60) % 60
        IN  /\ \A ts \in Surviving :
                   /\ window_key(ts, wm) =
                          (ts - (ts % (60 * 60))) + ((minute(ts) \div wm) * wm) * 60
                   /\ wm = 60 => window_key(ts, wm) = ts - (ts % (60 * 60))
            /\ \A a, b \in Surviving :
                   (window_key(a, wm) = window_key(b, wm))
                       <=> (DateHourSlot(a, wm) = DateHourSlot(b, wm))
            /\ Len(last.result) = Cardinality({DateHourSlot(ts, wm) : ts \in Surviving})
            /\ \A i \in kept :
                   \E j \in 1..Len(last.result) :
                       last.result[j] = Cardinality({k \in kept :
                           DateHourSlot(h[k][1], wm) = DateHourSlot(h[i][1], wm)})

\* C15 witness: 00:00:00 and 00:00:30 fall into one one-minute bucket.
C15_Witness ==
    /\ last.op = "get_mention_counts"
    /\ last.window_minutes = 1
    /\ Surviving = {0, 30}
    /\ last.result = <<2>>

\* C17: every public operation completes and returns without raising, in every
\* reachable state and for any ticker, count, timestamp and window_minutes;
\* add_mention in particular fails for no timestamp.
C17_NeverRaises ==
    last.raised = FALSE

\* C18: in Scenario A (z_threshold 2.5, 60 one-minute buckets of 1 or 2
\* mentions, not all equal, then a minute with 20) calculate_z_score('GME', 20,
\* 1) is positive and at least z_threshold, and detect_anomalies({'GME': 20}, 1)
\* returns GME with direction 'surge'.
C18_ScenarioASurge ==
    /\ last.op = "calculate_z_score" =>
           /\ last.result.sgn > 0
           /\ real_geq(last.result, z_threshold)
    /\ last.op = "detect_anomalies" =>
           /\ DOMAIN last.result = {"GME"}
           /\ last.result["GME"].direction = "surge"
           /\ last.result["GME"].mention_count = 20

\* C18 witness: the query sees 61 buckets, 60 of them of 1 or 2 mentions with
\* both values present and one of 20, and GME is returned as a surge.
C18_Witness ==
    LET counts == CountsNow("GME", 1)
    IN  /\ last.op = "detect_anomalies"
        /\ Len(counts) = 61
        /\ Cardinality({i \in 1..61 : counts[i] \in {1, 2}}) = 60
        /\ \E i, j \in 1..61 : counts[i] = 1 /\ counts[j] = 2
        /\ \E i \in 1..61 : counts[i] = 20
        /\ "GME" \in DOMAIN last.result
        /\ last.result["GME"].direction = "surge"

\* how often a timestamp occurs in a history or in a sequence of timestamps
Occurrences(h, ts) == Cardinality({i \in 1..Len(h) : h[i][1] = ts})

Times(stamps, ts) == Cardinality({i \in 1..Len(stamps) : stamps[i] = ts})

\* a lost mention: an inserted timestamp that lies within the retention window
\* of every call made, and of which the history holds fewer entries than were
\* inserted
LostMention ==
    \E i \in 1..Len(threads.inserted) :
        LET ts == threads.inserted[i]
            h == IF "AAA" \in DOMAIN mention_history THEN mention_history["AAA"] ELSE <<>>
        IN  /\ \A j \in 1..Len(threads.inserted) : ts >= threads.inserted[j] - Window
            /\ Occurrences(h, ts) < Times(threads.inserted, ts)

\* C21: when every add_mention runs as one atomic step no mention is lost;
\* interleaved statement by statement, two calls on one ticker can lose one
\* (the state of C21_Witness).
C21_AtomicNoLoss ==
    threads # <<>> /\ threads.atomic => ~LostMention

\* C21 witness: two interleaved calls have both returned and an entry that is
\* within the retention window of both is missing from the history.
C21_Witness ==
    /\ threads # <<>>
    /\ ~threads.atomic
    /\ \A t \in Threads : threads.th[t].pc = "idle"
    /\ Len(threads.inserted) = 2
    /\ LostMention

\* two sequences with the same elements, each as often in one as in the other
SameMultiset(a, b) ==
    /\ Len(a) = Len(b)
    /\ \A i \in 1..Len(a) :
           Cardinality({j \in 1..Len(a) : a[j] = a[i]})
               = Cardinality({j \in 1..Len(b) : b[j] = a[i]})

\* the entries of a ticker's history that a query at the given clock keeps
KeptAt(hist, ticker, clock) ==
    IF ticker \in DOMAIN hist
    THEN {i \in 1..Len(hist[ticker]) : hist[ticker][i][1] >= clock - Window}
    ELSE {}

\* C22 as stated: the same retained history and window_minutes give the same
\* multiset of bucket counts whenever the query is made.
C22_Original ==
    last.op = "get_mention_counts" =>
        \A c \in ClockValues :
            SameMultiset(last.result,
                get_mention_counts(last.before, c, last.ticker, last.window_minutes))

\* C22, amended: the counts are a function of the retained history, of
\* window_minutes and of which entries are at or after now - window_hours; two
\* queries on the same history at times that keep the same entries return the
\* same multiset of counts.
C22_Amended ==
    last.op = "get_mention_counts" =>
        \A c \in ClockValues :
            KeptAt(last.before, last.ticker, c) = KeptAt(last.before, last.ticker, now)
                => SameMultiset(last.result,
                       get_mention_counts(last.before, c, last.ticker, last.window_minutes))

\* C22 witness: a query that returns counts, while a query at another time keeps
\* the same entries and one at a third time keeps fewer.
C22_Witness ==
    /\ last.op = "get_mention_counts"
    /\ last.result # <<>>
    /\ \E c, d \in ClockValues \ {now} :
           /\ KeptAt(last.before, last.ticker, c) = KeptAt(last.before, last.ticker, now)
           /\ KeptAt(last.before, last.ticker, d) # KeptAt(last.before, last.ticker, now)

\* C24: the counts returned by get_mention_counts sum to the number of entries
\* with timestamp >= now - window_hours, every count is >= 1, and there are at
\* most as many buckets as such entries.
C24_CountsPartitionEntries ==
    last.op = "get_mention_counts" =>
        LET n == Cardinality(KeptAt(last.before, last.ticker, now))
        IN  /\ SeqSum(last.result) = n
            /\ \A i \in 1..Len(last.result) : last.result[i] >= 1
            /\ Len(last.result) <= n

\* C24 witness: three entries are stored, one older than the cutoff, and the two
\* others share a bucket.
C24_Witness ==
    /\ last.op = "get_mention_counts"
    /\ Len(HistoryBefore(last.ticker)) = 3
    /\ last.result = <<2>>

\* C25: add_mention(t, ...) leaves every other ticker's history, and whether it
\* is a key, as it was; no step changes z_threshold (window_hours is fixed).
C25_OnlyOwnHistory ==
    [][/\ z_threshold' = z_threshold
       /\ last'.op = "add_mention" =>
              \A u \in Tickers \ {last'.ticker} :
                  /\ (u \in DOMAIN mention_history') <=> (u \in DOMAIN mention_history)
                  /\ u \in DOMAIN mention_history =>
                         mention_history'[u] = mention_history[u]]_vars

\* C25 witness: an add_mention whose cutoff lies after an entry of the other
\* ticker, which is still stored.
C25_Witness ==
    /\ last.op = "add_mention"
    /\ \E u \in DOMAIN mention_history \ {last.ticker} :
           \E ts \in Timestamps(mention_history[u]) : ts < last.timestamp - Window

\* C26: an entry leaves a ticker's history only in an add_mention on that
\* ticker whose timestamp exceeds the entry's by more than window_hours; an
\* advance of the clock leaves every history as it was.
C26_EntriesLeaveOnlyByInsert ==
    [][/\ \A t \in DOMAIN mention_history :
              \A ts \in Timestamps(mention_history[t]) :
                  (t \notin DOMAIN mention_history'
                       \/ Occurrences(mention_history'[t], ts)
                              < Occurrences(mention_history[t], ts))
                      => /\ last'.op = "add_mention"
                         /\ last'.ticker = t
                         /\ last'.timestamp > ts + Window
       /\ now' # now => mention_history' = mention_history]_vars

\* C26 witness: the clock has advanced past an entry's retention and the entry
\* is still stored.
C26_Witness ==
    /\ last.op = "none"
    /\ \E t \in DOMAIN mention_history :
           /\ Len(mention_history[t]) >= 2
           /\ \A ts \in Timestamps(mention_history[t]) : ts + Window < now

\* every stored entry of the ticker is older than now - window_hours
Stale(t) ==
    /\ t \in DOMAIN mention_history
    /\ \A ts \in Timestamps(mention_history[t]) : ts + Window < now

\* C27: once the clock is beyond a ticker's latest stored timestamp plus
\* window_hours, get_mention_counts returns the empty sequence,
\* calculate_z_score returns 0.0 for every count, and with z_threshold > 0
\* detect_anomalies does not report the ticker.
C27_StaleTickerIsSilent ==
    /\ (last.op = "get_mention_counts" /\ Stale(last.ticker)) => last.result = <<>>
    /\ (last.op = "calculate_z_score" /\ Stale(last.ticker)) => last.result = Zero
    /\ (last.op = "detect_anomalies" /\ z_threshold.num > 0) =>
           \A t \in DOMAIN last.ticker_counts : Stale(t) => t \notin DOMAIN last.result

\* C27 witness: a ticker with two stored entries, both beyond retention, is
\* scored 0.0 for a count of 100.
C27_Witness ==
    /\ last.op = "calculate_z_score"
    /\ Stale(last.ticker)
    /\ Len(mention_history[last.ticker]) >= 2
    /\ last.current_count = 100
    /\ last.result = Zero

\* the ticker's history after add_mention(t, first) and then add_mention(t, second)
AfterBoth(t, first, second) ==
    add_mention(add_mention(mention_history, now, t, first), now, t, second)[t]

\* C28: two add_mention calls on one ticker whose timestamps differ by at most
\* window_hours commute: from any history both orders leave the same multiset
\* of entries.
C28_InsertsCommute ==
    \A t \in Tickers : \A a, b \in Instants :
        (a - b <= Window /\ b - a <= Window)
            => SameMultiset(AfterBoth(t, a, b), AfterBoth(t, b, a))

\* C28 witness: a history from which two inserts an hour apart prune an entry
\* and leave different sequences in the two orders.
C28_Witness ==
    \E t \in DOMAIN mention_history : \E a, b \in Instants :
        /\ a < b /\ b - a <= Window
        /\ AfterBoth(t, a, b) # AfterBoth(t, b, a)
        /\ Len(AfterBoth(t, a, b)) < Len(mention_history[t]) + 2

\* the entries the detector holds for a ticker
HistoryOf(t) == IF t \in DOMAIN mention_history THEN mention_history[t] ELSE <<>>

\* calls still to come for the item a monitoring task is working on
PendingMentions(t) ==
    LET mid == {l \in Loops : tasks.loop[l].pc = "mention"}
        rest(l) == SubSeq(tasks.loop[l].item, tasks.loop[l].k + 1, Len(tasks.loop[l].item))
    IN  IF mid = {} THEN 0
        ELSE LET l == CHOOSE x \in mid : TRUE IN TickerCount(rest(l), t)

\* C23: every item the monitoring loop stores yields exactly one add_mention
\* call per ticker of its list, after the store and before the next item is
\* read; an item skipped at the limit of 10 (or because monitoring stopped)
\* and an item whose store failed yield none.  The detector's entries per
\* ticker are the tickers of the stored items, less the calls still to come
\* for the item in hand, and only one task is ever inside an item.
C23_OncePerTicker ==
    /\ tasks # <<>> =>
        /\ Cardinality({l \in Loops : tasks.loop[l].pc \in {"item", "mention"}}) <= 1
        /\ \A t \in Tickers : Len(HistoryOf(t)) + PendingMentions(t) = audit.expected[t]
        /\ audit.calls = TotalMentions(mention_history, DOMAIN mention_history)
        /\ audit.fetched = audit.stored + audit.skipped + audit.failed
                           + Cardinality({l \in Loops : tasks.loop[l].pc = "item"})
        /\ \A l \in Loops : tasks.loop[l].count <= PostLimit

\* ten items stored in one iteration, some with two tickers, the eleventh skipped
C23_Witness ==
    /\ tasks # <<>>
    /\ audit.stored = PostLimit
    /\ audit.skipped = 1
    /\ Len(HistoryOf("BBB")) \in 1..(PostLimit - 1)
    /\ Len(HistoryOf("AAA")) = PostLimit
    /\ audit.calls = PostLimit + Len(HistoryOf("BBB"))

\* the tasks that have entered monitor_social_media and not returned
RunningLoops ==
    {l \in Loops : tasks.loop[l].pc \notin {"none", "scheduled", "done"}}

\* C29: at most one monitor_social_media loop is running at any time, for
\* every interleaving of start_monitoring and stop_monitoring requests with
\* the sleeps of the loop.
C29_AtMostOneLoop ==
    tasks # <<>> => Cardinality(RunningLoops) <= 1

\* monitoring is stopped and no later request can start it again
StoppedForGood ==
    /\ ~monitoring_active
    /\ tasks.shut \/ tasks.started = MaxStarts

AllLoopsExited == \A l \in Loops : tasks.loop[l].pc \in {"none", "done"}

\* while the flag is false no task goes from the while into an iteration and
\* no add_mention is called
StoppedStep ==
    ~monitoring_active =>
        /\ mention_history' = mention_history
        /\ audit'.calls = audit.calls
        /\ \A l \in Loops :
               tasks.loop[l].pc = "while" => tasks'.loop[l].pc \in {"while", "done"}

\* C30: once stop_monitoring or shutdown_event has cleared monitoring_active and
\* start_monitoring is not called again, every monitor_social_media task
\* eventually returns; from the moment the flag is false no task begins a new
\* iteration and none calls add_mention.
C30_LoopsExit ==
    /\ [][StoppedStep]_vars
    /\ StoppedForGood ~> AllLoopsExited

\* two loops that were started, fed the detector and have both returned after
\* a stop request
C30_Witness ==
    /\ StoppedForGood
    /\ tasks.response = "stopped"
    /\ \A l \in Loops : tasks.loop[l].pc = "done"
    /\ audit.calls >= 1
    /\ audit.stored >= 1

====
